---- MODULE Spec2Model ----
(***************************************************************************)
(* Model of the playback engine of dataO1/flow (src/core/player.rs): the   *)
(* Player thread, its command inbox, the shared playhead (TimeMarker), the *)
(* cue point, and the symphonia reader/decoder and PulseAudio sink it      *)
(* drives.  One iteration of Player::event_loop is three steps: the        *)
(* command step (try_recv and its handler), the start of play() (pull a    *)
(* packet and move the playhead) and the end of play() (decode and write). *)
(***************************************************************************)
EXTENDS Integers, Sequences, FiniteSets, TLC

VARIABLES
    state,              \* Player.state: PlayerState
    position_marker,    \* Player.position_marker: Arc<Mutex<Option<TimeMarker>>>
    cue_point_marker,   \* Player.cue_point_marker: Option<TimeMarker>
    reader,             \* Player.reader: Option<Box<dyn FormatReader>>
    decoder,            \* Player.decoder: Option<Box<dyn Decoder>>
    output,             \* Player.output: Option<psimple::Simple>
    spec,               \* Player.spec: Option<SignalSpec>
    track,              \* Player.track: Option<Track>
    inbox,              \* player_message_in: the mpsc channel's queue
    connected,          \* the application still holds the channel's Sender
    pc,                 \* where the player thread is in event_loop
    packet,             \* the packet play() holds between next_packet and write,
                        \* with the playhead as it was before next_packet
    player_event_out,   \* player_event_out: the events sent to the application
    thread,             \* "running" or "panicked": the player thread
    ev,                 \* what the last step of the player thread did
    sent,               \* number of messages the application has sent
    codec_params,       \* view::model::Track.codec_params: n_frames, sample_rate
    preview_buffer,     \* Track.preview_buffer: the Vec inside the RwLock
    rwlock,             \* the RwLock of preview_buffer: "free", "read", "write"
    preview_samples,    \* the Vec an append_preview_samples call is draining
    committed,          \* preview_buffer as the last completed append left it
    reading,            \* the interface thread is in a read, holding the lock
    observed,           \* what the interface thread's last read returned
    analyzer_thread,    \* the Analyzer thread: where it is in Analyzer::spawn
    analyzer_file,      \* the file of the Analyzer, as symphonia reads it
    analyzer_reader,    \* Analyzer.reader: packets read so far
    analyzer_preview_buf, \* Analyzer.preview_buf: samples held, their number
    analyzer_event_out, \* analyzer_event_out: every event sent, in order
    app_received,       \* events the application has taken from the channel
    tracks,             \* TrackList.tracks: the file paths, in insertion order
    focused_track,      \* TrackList.focused_track: Option of an index
    loaded_track,       \* TrackList.loaded_track: Option of an index
    list_ev             \* the last TrackList call, where it began, its result

\* The variables of the Analyzer thread and its channel (core/analyzer.rs).
analyzer_vars == <<analyzer_thread, analyzer_file, analyzer_reader,
                   analyzer_preview_buf, analyzer_event_out, app_received>>

\* The variables of the TrackList (view/widgets/track_table.rs).
tracklist_vars == <<tracks, focused_track, loaded_track, list_ev>>

\* The variables of the interface: the analyzed Track
\* (view/model/track.rs), the Analyzer that fills it and the TrackList.
view_vars == <<codec_params, preview_buffer, rwlock, preview_samples,
               committed, reading, observed, analyzer_vars, tracklist_vars>>

\* The variables of the Player and its channel.
player_vars == <<state, position_marker, cue_point_marker, reader, decoder,
                 output, spec, track, inbox, connected, pc, packet,
                 player_event_out, thread, ev, sent>>

vars == <<state, position_marker, cue_point_marker, reader, decoder, output,
          spec, track, inbox, connected, pc, packet, player_event_out, thread,
          ev, sent, view_vars>>

----------------------------------------------------------------------------
\* Bounds of the model.

\* Messages the application sends in one run.
MaxCmds == 5
\* Messages waiting in the channel at one time.
MaxInbox == 2

----------------------------------------------------------------------------
\* Option<T>: None is the empty tuple, Some(x) the tuple <<x>>.

None == <<>>

Some(x) == <<x>>

IsSome(o) == o # <<>>

Unwrap(o) == o[1]

----------------------------------------------------------------------------
\* The media files and what symphonia reports of them.

\* Paths that open, probe and decode.
Files == {"a.mp3", "b.mp3"}

\* A path that cannot be loaded (missing, unsupported or without a track).
BadPath == "bad.mp3"

Paths == Files \cup {BadPath}

\* Time is kept in ticks of 1/TicksPerSecond s: Time.frac is frac/TicksPerSecond.
TicksPerSecond == 4

\* TimeBase of the file's default track: one timestamp unit is 1/denom s.
TimeBaseOf(f) == IF f = "a.mp3" THEN 2 ELSE 4

\* Packets of the file's stream, numbered from 1.
NumPackets(f) == IF f = "a.mp3" THEN 3 ELSE 2

\* Every packet holds one second of audio.
PacketDur(f) == TimeBaseOf(f)

\* Packet::ts() of the idx-th packet of f.
PacketTs(f, idx) == (idx - 1) * PacketDur(f)

\* reader.default_track(): the Track of a file (its id, and its time base
\* in codec_params).
TrackOf(f) == [file |-> f, time_base |-> TimeBaseOf(f)]

\* symphonia::core::units::Time values the application sends with a skip:
\* one second, and half a second.
Offsets == {[seconds |-> 1, frac |-> 0], [seconds |-> 0, frac |-> 2]}

ZeroTime == [seconds |-> 0, frac |-> 0]

----------------------------------------------------------------------------
\* TimeMarker (player.rs 52-103) and the TimeBase conversions it calls.

\* TimeBase::calc_time: a timestamp as whole seconds and a fraction.
calc_time(time_base, ts) ==
    [seconds |-> ts \div time_base,
     frac    |-> (ts % time_base) * (TicksPerSecond \div time_base)]

\* TimeBase::calc_timestamp asserts 0 <= frac < 1 and panics otherwise.
calc_timestamp_panics(time) == time.frac >= TicksPerSecond

\* TimeBase::calc_timestamp: seconds and fraction back to a timestamp,
\* the fraction truncated to whole timestamp units.
calc_timestamp(time_base, time) ==
    time.seconds * time_base + (time.frac * time_base) \div TicksPerSecond

\* TimeMarker::new
TimeMarker_new(t) == [ts |-> 0, track |-> t]

\* The Time that add_time hands to calc_timestamp: the sums of the fields.
add_time_sum(marker, offset) ==
    LET current == calc_time(marker.track.time_base, marker.ts)
    IN  [seconds |-> current.seconds + offset.seconds,
         frac    |-> current.frac + offset.frac]

\* TimeMarker::add_time, when calc_timestamp does not panic.
add_time(marker, offset) ==
    [marker EXCEPT !.ts = calc_timestamp(marker.track.time_base,
                                         add_time_sum(marker, offset))]

\* TimeMarker::go_to
go_to(marker, ts) == [marker EXCEPT !.ts = ts]

\* TimeMarker::get_timestamp, of the shared Option<TimeMarker>.
get_timestamp(marker) == Unwrap(marker).ts

\* A Time in ticks: seconds + frac.
TimeInTicks(time) == time.seconds * TicksPerSecond + time.frac

\* TimeMarker::get_time_in_seconds, in ticks, of the shared
\* Option<TimeMarker>.
get_time_in_seconds(marker) ==
    TimeInTicks(calc_time(Unwrap(marker).track.time_base, Unwrap(marker).ts))

----------------------------------------------------------------------------
\* The FormatReader: the file it reads and the packet next_packet returns
\* next.

\* The packet that holds timestamp ts.
PacketAt(f, ts) == ts \div PacketDur(f) + 1

\* FormatReader::seek can succeed only inside the stream, and can fail
\* anywhere, with a seek error or with Error::ResetRequired.
SeekResults(rd, ts) ==
    IF PacketAt(rd.file, ts) <= NumPackets(rd.file)
    THEN {"ok", "seek_failed", "reset_required"}
    ELSE {"seek_failed", "reset_required"}

\* The reader after seek returned res.
ReaderAfterSeek(rd, ts, res) ==
    IF res = "ok" THEN [rd EXCEPT !.pos = PacketAt(rd.file, ts)] ELSE rd

\* FormatReader::next_packet: a packet, the end of the stream, or another
\* error of the reader, Error::ResetRequired among them.
NextPacketResults(rd) ==
    IF rd.pos > NumPackets(rd.file) THEN {"end_of_stream"}
    ELSE {"ok", "read_error", "reset_required"}

\* A PulseAudio stream as init_output opens it: nothing written yet.
NewSink(sp) == [spec |-> sp, writes |-> <<>>, pending |-> FALSE]

----------------------------------------------------------------------------
\* The messages of the inbox (enum Message): every message carries a path
\* and a time, the ones its variant does not have left at a default.

Msg(type, path, time) == [type |-> type, path |-> path, time |-> time]

Messages ==
    {Msg("Load", p, ZeroTime) : p \in Paths}
    \cup {Msg("TogglePlay", "", ZeroTime), Msg("Cue", "", ZeroTime),
          Msg("GetPreview", "", ZeroTime)}
    \cup {Msg("SkipForward", "", t) : t \in Offsets}
    \cup {Msg("SkipBackward", "", t) : t \in Offsets}

\* What a step did: the operation and how it ended.
Event(op, res) == [op |-> op, res |-> res]

----------------------------------------------------------------------------
\* The analyzed Track of the interface (view/model/track.rs) and the
\* PreviewSample of the analyzer (core/analyzer.rs 33-55).

\* Bounds of the model of the Track.

\* Entries the preview buffer holds at most.
MaxBuf == 3
\* Largest timestamp of a playhead handed to live_preview.
MaxTs == 3
\* Largest target_size handed to live_preview and preview.
MaxTargetSize == 4

\* PREVIEW_SAMPLE_RATE: preview samples per second of audio.  2205 in the
\* source; the model counts one preview sample per tick of time.
PREVIEW_SAMPLE_RATE == 4

\* PreviewSample values the analyzer produces.
Samples == {[lows |-> 1, mids |-> 2, highs |-> 3],
            [lows |-> 2, mids |-> 2, highs |-> 0]}

\* PreviewSample { lows: 0.0, mids: 0.0, highs: 0.0 }
ZeroSample == [lows |-> 0, mids |-> 0, highs |-> 0]

\* impl Sum for PreviewSample
RECURSIVE Sum(_)
Sum(chunk) ==
    IF chunk = <<>> THEN ZeroSample
    ELSE LET s == Head(chunk)
             rest == Sum(Tail(chunk))
         IN  [lows  |-> s.lows + rest.lows,
              mids  |-> s.mids + rest.mids,
              highs |-> s.highs + rest.highs]

\* Itertools::chunks(size): consecutive groups of size elements, the last
\* one shorter when the length is no multiple of size.
RECURSIVE chunks(_, _)
chunks(samples, size) ==
    IF samples = <<>> THEN <<>>
    ELSE IF Len(samples) <= size THEN <<samples>>
    ELSE <<SubSeq(samples, 1, size)>>
         \o chunks(SubSeq(samples, size + 1, Len(samples)), size)

\* The closures of live_preview (119-126) and preview (144-150): every
\* chunk becomes its sum divided by rate, whatever the chunk's length.  The
\* quotient is kept as the sum and the divisor rate[1] / rate[2].
averaged(samples, size, rate) ==
    LET groups == chunks(samples, size)
    IN  [i \in 1..Len(groups) |-> [sum |-> Sum(groups[i]), rate |-> rate]]

\* vec![0.0; n] mapped to PreviewSamples (98-106)
zeros(n) == [i \in 1..n |-> ZeroSample]

\* codec_params of the track: n_frames and sample_rate, both Option.
CodecParameters(n_frames, sample_rate) ==
    [n_frames |-> n_frames, sample_rate |-> sample_rate]

\* What the container declares: 5 frames or no frame count, 4 or 8 frames
\* per second or no sample rate.
CodecParams ==
    {CodecParameters(n, r) : n \in {None, Some(5)},
                             r \in {None, Some(4), Some(8)}}

\* A function returned v.
Returned(v) == [panicked |-> FALSE, value |-> v]

\* A function panicked.
Unwound == [panicked |-> TRUE, value |-> <<>>]

\* `as u8` of a float that is not negative saturates at 255.
as_u8(x) == IF x > 255 THEN 255 ELSE x

\* Track::progress (54-67): res is 0 unless both parameters are declared
\* and the buffer holds something; (res * 100).ceil() as u8, always Some.
progress(buf, cp) ==
    IF IsSome(cp.n_frames) /\ IsSome(cp.sample_rate) /\ Len(buf) > 0
    THEN LET frames == Len(buf)
                       * (Unwrap(cp.sample_rate) \div PREVIEW_SAMPLE_RATE)
             n_frames == Unwrap(cp.n_frames)
         IN  Returned(Some(as_u8((frames * 100 + n_frames - 1)
                                 \div n_frames)))
    ELSE Returned(Some(0))

\* live_preview (81-82): the playhead in preview samples, truncated.
player_pos(playhead_position) ==
    (get_time_in_seconds(playhead_position) * PREVIEW_SAMPLE_RATE)
        \div TicksPerSecond

\* conversion_factor.floor() as usize (77, 99, 109, 117)
conversion_floor(target_sample_rate) ==
    PREVIEW_SAMPLE_RATE \div target_sample_rate

\* (x as f32 * conversion_factor).ceil() as usize (89, 91)
scale_ceil(x, target_sample_rate) ==
    (x * PREVIEW_SAMPLE_RATE + target_sample_rate - 1)
        \div target_sample_rate

\* live_preview (85): player_pos / conversion_factor truncated, less half
\* the target size truncated.
window_diff(target_size, target_sample_rate, playhead_position) ==
    (player_pos(playhead_position) * target_sample_rate)
        \div PREVIEW_SAMPLE_RATE
    - target_size \div 2

\* live_preview (88, 90): (player_pos + sign * target_size / 2.0) as usize,
\* where a negative float becomes 0.
window_edge(sign, target_size, target_sample_rate, playhead_position) ==
    LET num == 2 * player_pos(playhead_position) * target_sample_rate
               + sign * target_size * PREVIEW_SAMPLE_RATE
    IN  IF num < 0 THEN 0 ELSE num \div (2 * PREVIEW_SAMPLE_RATE)

\* buf[l..r]: the entries l+1 to r, and a panic when the range does not
\* lie in the buffer.
slice(buf, l, r) ==
    IF l > r \/ r > Len(buf) THEN Unwound
    ELSE Returned(SubSeq(buf, l + 1, r))

\* live_preview (97-113): diff entries of padding, then, unless the buffer
\* is empty, its slice up to what is left of the target size.
live_preview_padded(buf, target_size, target_sample_rate, diff) ==
    LET floor == conversion_floor(target_sample_rate)
        head == slice(buf, 0, (target_size - diff) * floor)
    IN  IF Len(buf) = 0 THEN Returned(zeros(diff * floor))
        ELSE IF head.panicked THEN Unwound
        ELSE Returned(zeros(diff * floor) \o head.value)

\* live_preview (92): the right edge is cut at the end of the buffer.
window_right(r, len) == IF r < len THEN r ELSE len

\* live_preview (86-95): the slice l..r of the buffer, r cut at its end.
live_preview_window(buf, target_size, target_sample_rate, playhead_position) ==
    LET l == scale_ceil(window_edge(-1, target_size, target_sample_rate,
                                    playhead_position), target_sample_rate)
        r == window_right(
                 scale_ceil(window_edge(1, target_size, target_sample_rate,
                                        playhead_position),
                            target_sample_rate),
                 Len(buf))
    IN  IF l < r THEN slice(buf, l, r) ELSE Returned(<<>>)

\* Track::live_preview (71-129)
live_preview(buf, target_size, target_sample_rate, playhead_position) ==
    LET diff == window_diff(target_size, target_sample_rate,
                            playhead_position)
        unscaled ==
            IF diff >= 0
            THEN live_preview_window(buf, target_size, target_sample_rate,
                                     playhead_position)
            ELSE live_preview_padded(buf, target_size, target_sample_rate,
                                     -diff)
        floor == conversion_floor(target_sample_rate)
    IN  IF unscaled.panicked \/ floor = 0 THEN Unwound
        ELSE Returned(averaged(unscaled.value, floor, <<floor, 1>>))

\* Track::preview (132-153): both unwraps, then chunks of
\* (n_frames * conversion_rate / target_size) as usize entries, each sum
\* divided by the quotient that was not truncated.
preview(buf, cp, target_size) ==
    IF ~IsSome(cp.sample_rate) \/ ~IsSome(cp.n_frames) THEN Unwound
    ELSE LET num == Unwrap(cp.n_frames) * PREVIEW_SAMPLE_RATE
             den == Unwrap(cp.sample_rate) * target_size
         IN  IF num \div den = 0 THEN Unwound
             ELSE Returned(averaged(buf, num \div den, <<num, den>>))

\* The reads the interface makes of a track: progress(), live_preview with
\* its three arguments, preview with its target size.
Call(op, target_size, target_sample_rate, playhead_position) ==
    [op |-> op, target_size |-> target_size,
     target_sample_rate |-> target_sample_rate,
     playhead_position |-> playhead_position]

\* Playheads handed to live_preview: a TimeMarker of the track of b.mp3.
Playheads ==
    {Some([track |-> TrackOf("b.mp3"), ts |-> ts]) : ts \in 0..MaxTs}

TargetSizes == 2..MaxTargetSize

\* Rates of the display: as many columns per second as preview samples, or
\* half as many.
TargetSampleRates == {PREVIEW_SAMPLE_RATE, PREVIEW_SAMPLE_RATE \div 2}

Calls ==
    {Call("progress", 0, 0, None)}
    \cup {Call("preview", n, 0, None) : n \in TargetSizes}
    \cup {Call("live_preview", n, r, p) :
              n \in TargetSizes, r \in TargetSampleRates, p \in Playheads}

\* What a call returns of a buffer.
call_result(c, buf, cp) ==
    CASE c.op = "progress" -> progress(buf, cp)
      [] c.op = "preview"  -> preview(buf, cp, c.target_size)
      [] OTHER -> live_preview(buf, c.target_size, c.target_sample_rate,
                               c.playhead_position)

\* The Vecs the analyzer hands to append_preview_samples.
Batches ==
    {<<s>> : s \in Samples} \cup {<<s, t>> : s \in Samples, t \in Samples}

\* Track::new (32-41) with the codec parameters cp: an empty buffer behind
\* a lock nobody holds, and no read made yet.
Track_new(cp) ==
    /\ codec_params = cp
    /\ preview_buffer = <<>>
    /\ rwlock = "free"
    /\ preview_samples = <<>>
    /\ committed = <<>>
    /\ reading = FALSE
    /\ observed = [call |-> Call("none", 0, 0, None), res |-> Returned(<<>>)]

----------------------------------------------------------------------------
\* Player::new (144-156), with an empty inbox and an empty shared playhead.

Player_new ==
    /\ state = "Unloaded"
    /\ position_marker = None
    /\ cue_point_marker = None
    /\ reader = None
    /\ decoder = None
    /\ output = None
    /\ spec = None
    /\ track = None
    /\ inbox = <<>>
    /\ connected = TRUE
    /\ pc = "recv"
    /\ packet = None
    /\ player_event_out = <<>>
    /\ thread = "running"
    /\ ev = Event("new", "ok")
    /\ sent = 0

\* A file as symphonia reads it for the Analyzer: its sample rate, its
\* channel count, its number of packets and whether the container declares
\* the frame count.
AnalyzerFile(sample_rate, channels, packets, declared) ==
    [sample_rate |-> sample_rate, channels |-> channels,
     packets |-> packets, declared |-> declared]

\* No Analyzer has been spawned.
Analyzer_unspawned ==
    /\ analyzer_thread = "none"
    /\ analyzer_file = AnalyzerFile(0, 0, 0, FALSE)
    /\ analyzer_reader = 0
    /\ analyzer_preview_buf = 0
    /\ analyzer_event_out = <<>>
    /\ app_received = 0

\* A call of the TrackList: its name, focused_track when it began, and
\* what it returned.
ListEvent(op, before, res) == [op |-> op, before |-> before, res |-> res]

\* TrackList::default (150-158): no track, nothing focused, nothing loaded.
TrackList_default ==
    /\ tracks = <<>>
    /\ focused_track = None
    /\ loaded_track = None
    /\ list_ev = ListEvent("default", None, Returned(None))

\* The player and its channel, a track without declared parameters that
\* nothing analyzes or reads, no Analyzer and an empty TrackList.
Init ==
    /\ Player_new
    /\ Track_new(CodecParameters(None, None))
    /\ Analyzer_unspawned
    /\ TrackList_default

\* The application sends a message: Sender::send on the unbounded channel.
Send(m) ==
    /\ connected
    /\ sent < MaxCmds
    /\ Len(inbox) < MaxInbox
    /\ inbox' = Append(inbox, m)
    /\ sent' = sent + 1
    /\ ev' = Event("send", m.type)
    /\ UNCHANGED <<state, position_marker, cue_point_marker, reader, decoder,
                   output, spec, track, connected, pc, packet,
                   player_event_out, thread, view_vars>>

\* The application drops its Sender: from now on try_recv returns
\* Err(Disconnected) once the queue is empty.
Disconnect ==
    /\ connected
    /\ connected' = FALSE
    /\ ev' = Event("send", "disconnect")
    /\ UNCHANGED <<state, position_marker, cue_point_marker, reader, decoder,
                   output, spec, track, inbox, pc, packet, player_event_out,
                   thread, sent, view_vars>>

\* The player thread is at try_recv (165) with the loop condition (163) true.
AtRecv == thread = "running" /\ pc = "recv" /\ state # "Closed"

\* try_recv returned Ok(message of this type).
Received(type) == AtRecv /\ inbox # <<>> /\ Head(inbox).type = type

\* A loop that goes back to try_recv after a handler and plays only once
\* the queue is empty.
Handled_then_recv(op, res) ==
    /\ inbox' = Tail(inbox)
    /\ pc' = "recv"
    /\ ev' = Event(op, res)
    /\ UNCHANGED <<thread, packet, player_event_out, connected, sent,
                   view_vars>>

\* A handler returned: the message is consumed and the loop goes on to play.
Handled(op, res) ==
    /\ inbox' = Tail(inbox)
    /\ pc' = "play"
    /\ ev' = Event(op, res)
    /\ UNCHANGED <<thread, packet, player_event_out, connected, sent,
                   view_vars>>

\* A handler panicked: the message is consumed and the thread unwinds.
Panicked(op, res) ==
    /\ inbox' = Tail(inbox)
    /\ thread' = "panicked"
    /\ ev' = Event(op, res)
    /\ UNCHANGED <<pc, packet, player_event_out, connected, sent,
                   view_vars>>

----------------------------------------------------------------------------
\* Load (169-172, 201-210, 356-414).

\* How loading a path can end: a good file loads unless the audio device
\* cannot be opened; a bad path fails in init_reader or init_decoder.
LoadResults(path) ==
    IF path \in Files THEN {"ok", "sink_unavailable"}
    ELSE {"open_failed", "unsupported_format", "no_track"}

\* init_reader (380-391): the new reader, at the first packet.
init_reader(path) == [file |-> path, pos |-> 1]

\* An init_decoder that never stores the track.
init_decoder_track_unset(old, path) == old

\* init_decoder (399-402): self.track is set only when it is None.
init_decoder_track(old, path) ==
    IF old = None THEN Some(TrackOf(path)) ELSE old

\* An init_decoder that leaves the reader at the first packet.
init_decoder_reader_rewound(rd) == rd

\* init_decoder (407): next_packet consumes the first packet.
init_decoder_reader(rd) == [rd EXCEPT !.pos = rd.pos + 1]

\* A load that forgets line 205 and leaves the state as it was.
load_state_unchanged(st) == st

\* load (205): the state after a load that did not panic.
load_state(st) == "Paused"

\* A load that keeps a playhead it finds.
load_marker_kept(tr, old) ==
    IF IsSome(old) THEN old
    ELSE IF IsSome(tr) THEN Some(TimeMarker_new(Unwrap(tr))) ELSE old

\* load (206-209): the playhead and the cue point after a load.
load_marker(tr, old) ==
    IF IsSome(tr) THEN Some(TimeMarker_new(Unwrap(tr))) ELSE old

load(path, res) ==
    LET rd == init_reader(path)
        tr == init_decoder_track(track, path)
    IN
    CASE res \in {"open_failed", "unsupported_format"} ->
            \* File::open(..).expect / probe.format(..).expect (381, 389)
            /\ Panicked("load", res)
            /\ UNCHANGED <<state, position_marker, cue_point_marker, reader,
                           decoder, output, spec, track>>
      [] res = "no_track" ->
            \* reader.default_track().unwrap() (399), the reader replaced
            /\ reader' = Some(rd)
            /\ Panicked("load", res)
            /\ UNCHANGED <<state, position_marker, cue_point_marker,
                           decoder, output, spec, track>>
      [] res = "sink_unavailable" ->
            \* psimple::Simple::new(..).unwrap() (366-376)
            /\ reader' = Some(init_decoder_reader(rd))
            /\ track' = tr
            /\ decoder' = Some(path)
            /\ spec' = Some(path)
            /\ Panicked("load", res)
            /\ UNCHANGED <<state, position_marker, cue_point_marker, output>>
      [] OTHER ->
            /\ reader' = Some(init_decoder_reader(rd))
            /\ track' = tr
            /\ decoder' = Some(path)
            /\ spec' = Some(path)
            /\ output' = Some(NewSink(path))
            /\ state' = load_state(state)
            /\ position_marker' = load_marker(tr, position_marker)
            /\ cue_point_marker' =
                   IF IsSome(tr) THEN load_marker(tr, position_marker)
                   ELSE cue_point_marker
            /\ Handled("load", res)

RecvLoad ==
    /\ Received("Load")
    /\ \E res \in LoadResults(Head(inbox).path) : load(Head(inbox).path, res)

----------------------------------------------------------------------------
\* TogglePlay (173-175, 234-259).

\* A toggle_play without the check of the output that starts playing from
\* every state but Playing.
toggle_play_state_unchecked(st, out) ==
    IF st = "Playing" THEN "Paused" ELSE "Playing"

\* toggle_play (242-257): the state after the command.
toggle_play_state(st, out) ==
    IF IsSome(out)
    THEN CASE st = "Paused" -> "Playing"
           [] st = "Playing" -> "Paused"
           [] OTHER -> st
    ELSE st

\* A pause that does not flush the sink.
pause_without_flush(out) == out

\* pause (234-238): out.flush() drains what was written.
pause(out) ==
    IF IsSome(out) THEN Some([Unwrap(out) EXCEPT !.pending = FALSE]) ELSE out

toggle_play ==
    /\ state' = toggle_play_state(state, output)
    /\ output' = IF IsSome(output) /\ state = "Playing"
                 THEN pause(output) ELSE output
    /\ Handled("toggle_play", toggle_play_state(state, output))
    /\ UNCHANGED <<position_marker, cue_point_marker, reader, decoder,
                   spec, track>>

RecvTogglePlay == Received("TogglePlay") /\ toggle_play

----------------------------------------------------------------------------
\* Cue (176-178, 212-232).

\* cue takes its second branch and finds track, reader and cue point.
CueReturns ==
    /\ state = "Playing"
    /\ IsSome(track) /\ IsSome(reader) /\ IsSome(cue_point_marker)

\* How cue can end: a cue point set, a seek that succeeded or failed, or
\* nothing done.
CueResults ==
    IF state # "Playing" THEN {"set"}
    ELSE IF CueReturns
         THEN SeekResults(Unwrap(reader), Unwrap(cue_point_marker).ts)
         ELSE {"nothing"}

\* A cue that keeps a cue point once one is set.
cue_set_once(position, cue_point) ==
    IF IsSome(cue_point) THEN cue_point ELSE position

\* cue (215): the cue point after Cue while not playing.
cue_set(position, cue_point) == position

\* A cue that marks the playhead as the cue point while playing too.
cue_return_point_marked(position, cue_point) == position

\* cue (217-222): the branch of Playing only reads the cue point.
cue_return_point(position, cue_point) == cue_point

\* A cue that seeks the reader and leaves the playhead where it was.
cue_return_unmoved(position, cue_point, res) == position

\* cue (222): the playhead is overwritten before reader.seek is called,
\* and whatever seek returns is dropped.
cue_return(position, cue_point, res) == cue_point

cue(res) ==
    /\ IF state # "Playing"
       THEN /\ cue_point_marker' = cue_set(position_marker, cue_point_marker)
            /\ UNCHANGED <<position_marker, reader>>
       ELSE IF CueReturns
            THEN /\ position_marker' =
                        cue_return(position_marker, cue_point_marker, res)
                 /\ reader' = Some(ReaderAfterSeek(Unwrap(reader),
                                   Unwrap(cue_point_marker).ts, res))
                 /\ cue_point_marker' =
                        cue_return_point(position_marker, cue_point_marker)
            ELSE UNCHANGED <<position_marker, cue_point_marker, reader>>
    /\ Handled("cue", res)
    /\ UNCHANGED <<state, decoder, output, spec, track>>

RecvCue == Received("Cue") /\ \E res \in CueResults : cue(res)

----------------------------------------------------------------------------
\* SkipForward and SkipBackward (179-184, 262-278).

\* skip finds track, reader and playhead (263-267).
SkipApplies == IsSome(track) /\ IsSome(reader) /\ IsSome(position_marker)

\* skip (268): the playhead after add_time; the SkipType t is never read,
\* and whatever seek returns afterwards is dropped.
skip_playhead(playhead, offset, t, res) == add_time(playhead, offset)

\* How skip can end: nothing done, a panic in calc_timestamp, or a seek
\* that succeeded or failed.
SkipResults(offset, t) ==
    IF ~SkipApplies THEN {"nothing"}
    ELSE IF calc_timestamp_panics(add_time_sum(Unwrap(position_marker), offset))
         THEN {"invalid_time"}
         ELSE SeekResults(Unwrap(reader),
                  skip_playhead(Unwrap(position_marker), offset, t, "ok").ts)

skip(offset, t, res) ==
    /\ UNCHANGED <<state, cue_point_marker, decoder, output, spec, track>>
    /\ CASE res = "nothing" ->
              /\ UNCHANGED <<position_marker, reader>>
              /\ Handled(t, res)
         [] res = "invalid_time" ->
              \* the assertion of calc_timestamp fails inside add_time (82)
              /\ UNCHANGED <<position_marker, reader>>
              /\ Panicked(t, res)
         [] OTHER ->
              LET playhead ==
                      skip_playhead(Unwrap(position_marker), offset, t, res)
              IN  /\ position_marker' = Some(playhead)
                  /\ reader' = Some(ReaderAfterSeek(Unwrap(reader),
                                                    playhead.ts, res))
                  /\ Handled(t, res)

RecvSkipForward ==
    /\ Received("SkipForward")
    /\ \E res \in SkipResults(Head(inbox).time, "skip_forward") :
           skip(Head(inbox).time, "skip_forward", res)

RecvSkipBackward ==
    /\ Received("SkipBackward")
    /\ \E res \in SkipResults(Head(inbox).time, "skip_backward") :
           skip(Head(inbox).time, "skip_backward", res)

\* Any other message (GetPreview) reaches todo!() (185-187).
RecvOther ==
    /\ Received("GetPreview")
    /\ Panicked("get_preview", "not_implemented")
    /\ UNCHANGED <<state, position_marker, cue_point_marker, reader, decoder,
                   output, spec, track>>

\* A loop that closes the player once the channel is disconnected.
recv_error_state_closing(st, conn) == IF conn THEN st ELSE "Closed"

\* The arm Err(_) (188-191) has no statement: the state stays.
recv_error_state(st, conn) == st

\* try_recv returned Err: the queue is empty, or empty and disconnected;
\* the arm Err(_) takes both (188-191).
RecvEmpty ==
    /\ AtRecv
    /\ inbox = <<>>
    /\ pc' = "play"
    /\ ev' = Event("recv", IF connected THEN "empty" ELSE "disconnected")
    /\ state' = recv_error_state(state, connected)
    /\ UNCHANGED <<position_marker, cue_point_marker, reader, decoder,
                   output, spec, track, inbox, connected, packet,
                   player_event_out, thread, sent, view_vars>>

----------------------------------------------------------------------------
\* The play step of the loop (193-198) and play (280-313).

\* The player thread is at the test of line 194.
AtPlay == thread = "running" /\ pc = "play"

\* A loop that plays only in the iterations that handled a message.
ShouldPlay_after_message(st, out) ==
    st = "Playing" /\ IsSome(out) /\ ev.op # "recv"

\* A loop that plays whenever a sink is open, whatever the state.
ShouldPlay_when_loaded(st, out) == IsSome(out)

\* The loop calls play in this iteration (194-195).
ShouldPlay(st, out) == st = "Playing" /\ IsSome(out)

\* play finds reader, decoder, output and track (281-287).
Initialized ==
    IsSome(reader) /\ IsSome(decoder) /\ IsSome(output) /\ IsSome(track)

\* Nothing to play: the iteration ends.
PlayIdle ==
    /\ AtPlay
    /\ ~ShouldPlay(state, output)
    /\ pc' = "recv"
    /\ ev' = Event("play", "idle")
    /\ UNCHANGED <<state, position_marker, cue_point_marker, reader, decoder,
                   output, spec, track, inbox, connected, packet,
                   player_event_out, thread, sent, view_vars>>

\* A play that leaves the playhead alone until the packet is written.
play_position_unmoved(position, pkt_ts, res) == position

\* play (289-291): the playhead after next_packet returned res.
play_position(position, pkt_ts, res) ==
    IF res = "ok" /\ IsSome(position)
    THEN Some(go_to(Unwrap(position), pkt_ts)) ELSE position

\* play (288-291): next_packet; its error leaves play through `?` and the
\* loop drops it; its packet moves the playhead.
play_pull(res) ==
    LET rd == Unwrap(reader)
    IN  /\ position_marker' =
               play_position(position_marker, PacketTs(rd.file, rd.pos), res)
        /\ IF res = "ok"
           THEN /\ packet' = Some([file |-> rd.file, idx |-> rd.pos,
                                    before |-> position_marker])
                /\ reader' = Some([rd EXCEPT !.pos = rd.pos + 1])
                /\ pc' = "write"
           ELSE /\ pc' = "recv"
                /\ UNCHANGED <<packet, reader>>
        /\ ev' = Event("next_packet", res)
        /\ UNCHANGED <<state, cue_point_marker, decoder, output, spec, track,
                       inbox, connected, player_event_out, thread, sent,
                       view_vars>>

PlayPull ==
    /\ AtPlay
    /\ ShouldPlay(state, output)
    /\ IF Initialized
       THEN \E res \in NextPacketResults(Unwrap(reader)) : play_pull(res)
       ELSE \* panic!("Not everything was initialized") (310)
            /\ thread' = "panicked"
            /\ ev' = Event("next_packet", "not_initialized")
            /\ UNCHANGED <<state, position_marker, cue_point_marker, reader,
                           decoder, output, spec, track, inbox, connected,
                           pc, packet, player_event_out, sent, view_vars>>

\* How the rest of play can end: the packet written, decode(..).unwrap()
\* panicking (292), or out.write failing (302-303).
WriteResults == {"ok", "decode_error", "write_error"}

\* play (296-298): the sink after a write that succeeded.
sink_write(out, pkt) ==
    [out EXCEPT !.writes = Append(@, pkt.idx), !.pending = TRUE]

\* play (292-307): decode the packet and write it to the sink.
play_write(res) ==
    /\ IF res = "ok"
       THEN /\ output' = Some(sink_write(Unwrap(output), Unwrap(packet)))
            /\ packet' = None
            /\ pc' = "recv"
            /\ UNCHANGED thread
       ELSE /\ thread' = "panicked"
            /\ UNCHANGED <<output, packet, pc>>
    /\ ev' = Event("write", res)
    /\ UNCHANGED <<state, position_marker, cue_point_marker, reader, decoder,
                   spec, track, inbox, connected, player_event_out, sent,
                   view_vars>>

PlayWrite ==
    /\ thread = "running"
    /\ pc = "write"
    /\ \E res \in WriteResults : play_write(res)

----------------------------------------------------------------------------

Next ==
    \/ \E m \in Messages : Send(m)
    \/ Disconnect
    \/ RecvLoad
    \/ RecvTogglePlay
    \/ RecvCue
    \/ RecvSkipForward
    \/ RecvSkipBackward
    \/ RecvOther
    \/ RecvEmpty
    \/ PlayIdle
    \/ PlayPull
    \/ PlayWrite

Spec == Init /\ [][Next]_vars

\* A step of the player thread.
PlayerStep ==
    \/ RecvLoad
    \/ RecvTogglePlay
    \/ RecvCue
    \/ RecvSkipForward
    \/ RecvSkipBackward
    \/ RecvOther
    \/ RecvEmpty
    \/ PlayIdle
    \/ PlayPull
    \/ PlayWrite

\* The player thread is scheduled fairly: it runs on as long as it can.
FairSpec == Spec /\ WF_vars(PlayerStep)

----------------------------------------------------------------------------
\* The analyzer thread appending to the preview buffer of a track, and the
\* interface thread reading it (view/model/track.rs 43-153).

\* The interface runs on the main thread: once a read of it has panicked
\* the process is gone.
ProcessAlive == ~observed.res.panicked

\* An append that puts what it moves in front of the buffer.
moved_to_front(buf, samples) == <<Head(samples)>> \o buf

\* Vec::append (49): the next element of preview_samples moves to the end
\* of the buffer.
moved(buf, samples) == Append(buf, Head(samples))

\* A read lock that is granted while the writer holds the lock.
CanRead_while_writing(lock) == TRUE

\* RwLock::read (56, 79, 133) is granted unless a writer holds the lock.
CanRead(lock) == lock # "write"

\* RwLock::write (49) is granted when nobody holds the lock.
CanWrite(lock) == lock = "free"

\* append_preview_samples (44-49) takes the write lock.
AppendLock(batch) ==
    /\ ProcessAlive
    /\ preview_samples = <<>>
    /\ CanWrite(rwlock)
    /\ Len(preview_buffer) + Len(batch) <= MaxBuf
    /\ rwlock' = "write"
    /\ preview_samples' = batch
    /\ UNCHANGED <<codec_params, preview_buffer, committed, reading,
                   observed, player_vars, analyzer_vars, tracklist_vars>>

\* Vec::append moves one element.
AppendMove ==
    /\ ProcessAlive
    /\ preview_samples # <<>>
    /\ preview_buffer' = moved(preview_buffer, preview_samples)
    /\ preview_samples' = Tail(preview_samples)
    /\ UNCHANGED <<codec_params, rwlock, committed, reading, observed,
                   player_vars, analyzer_vars, tracklist_vars>>

\* append_preview_samples returns: the write guard is dropped.
AppendUnlock ==
    /\ ProcessAlive
    /\ rwlock = "write"
    /\ preview_samples = <<>>
    /\ rwlock' = "free"
    /\ committed' = preview_buffer
    /\ UNCHANGED <<codec_params, preview_buffer, preview_samples, reading,
                   observed, player_vars, analyzer_vars, tracklist_vars>>

\* progress, live_preview or preview takes the read lock (56, 79, 133),
\* each before it looks at its arguments.
ReadLock ==
    /\ ProcessAlive
    /\ ~reading
    /\ CanRead(rwlock)
    /\ rwlock' = "read"
    /\ reading' = TRUE
    /\ UNCHANGED <<codec_params, preview_buffer, preview_samples, committed,
                   observed, player_vars, analyzer_vars, tracklist_vars>>

\* The call c computes its result of the buffer and drops the read guard.
ReadReturn(c) ==
    /\ ProcessAlive
    /\ reading
    /\ observed' = [call |-> c,
                    res  |-> call_result(c, preview_buffer, codec_params)]
    /\ rwlock' = IF rwlock = "read" THEN "free" ELSE rwlock
    /\ reading' = FALSE
    /\ UNCHANGED <<codec_params, preview_buffer, preview_samples, committed,
                   player_vars, analyzer_vars, tracklist_vars>>

\* A track of any declared parameters, next to a player that is not used.
TrackInit ==
    /\ Player_new
    /\ \E cp \in CodecParams : Track_new(cp)
    /\ Analyzer_unspawned
    /\ TrackList_default

TrackNext ==
    \/ \E batch \in Batches : AppendLock(batch)
    \/ AppendMove
    \/ AppendUnlock
    \/ ReadLock
    \/ \E c \in Calls : ReadReturn(c)

TrackSpec == TrackInit /\ [][TrackNext]_vars

----------------------------------------------------------------------------
\* The Analyzer thread (core/analyzer.rs 93-238) and the application that
\* takes its events (view/app.rs 196-201).

\* Most packets a file of the Analyzer holds.
MaxPackets == 6

\* Frames a decoded packet holds.
FramesPerPacket == 8

\* The files Analyzers are spawned for: 4 or 8 frames per second, mono or
\* stereo, 1 to MaxPackets packets.
AnalyzerFiles ==
    {AnalyzerFile(r, c, n, d) : r \in {4, 8}, c \in {1, 2},
                                n \in 1..MaxPackets, d \in BOOLEAN}

\* Frames of the whole file.
n_frames_of(file) == file.packets * FramesPerPacket

\* default_track.codec_params (121, 123-126) of the file.
codec_params_of(file) ==
    CodecParameters(IF file.declared THEN Some(n_frames_of(file)) ELSE None,
                    Some(file.sample_rate))

\* sample_buffer.samples() (209): the interleaved samples of one packet.
samples_len(file) == FramesPerPacket * file.channels

\* The threshold of analyze_packet (217): 10 * sample_rate samples, the
\* channels counted each.
preview_threshold(file) == 10 * file.sample_rate

\* sum_to_mono (285-293): one sample per frame.
sum_to_mono_len(file, len) == len \div file.channels

\* Samplerate::process_last (220-232) from sample_rate to
\* PREVIEW_SAMPLE_RATE: the length of what it returns.
resampled_len(file, len) == (len * PREVIEW_SAMPLE_RATE) \div file.sample_rate

\* samples_2_preview_samples (326-373): one PreviewSample per sample it is
\* given (take(samples.len())).
samples_2_preview_samples(len) ==
    [i \in 1..len |-> [lows |-> 1, mids |-> 2, highs |-> 3]]

\* What Analyzer::new can meet: the file opens and is probed, or
\* File::open fails (expect, 177), the probe fails (expect, 185), or the
\* file has no default track (unwrap, 121).
NewResults == {"ok", "open_failed", "unsupported_format", "no_default_track"}

\* What Analyzer::decode can meet at packet pos of the file: past the last
\* packet the reader returns an error; before it the packet decodes, the
\* reader fails, or the decoder fails.
DecodeResults(file, pos) ==
    IF pos >= file.packets THEN {"end_of_stream"}
    ELSE {"ok", "io_error", "decode_error"}

\* Analyzer::new (117-146): the reader, the decoder and the Track are
\* made, NewTrack is sent, and the buffers start empty; each failure
\* before the send panics the thread.
Analyzer_new(res) ==
    /\ analyzer_thread = "spawned"
    /\ IF res = "ok"
       THEN /\ analyzer_thread' = "decoding"
            /\ codec_params' = codec_params_of(analyzer_file)
            /\ analyzer_event_out' = Append(analyzer_event_out, "NewTrack")
       ELSE /\ analyzer_thread' = "panicked"
            /\ UNCHANGED <<codec_params, analyzer_event_out>>
    /\ analyzer_preview_buf' = 0
    /\ UNCHANGED <<preview_buffer, rwlock, preview_samples, committed,
                   reading, observed, analyzer_file, analyzer_reader,
                   app_received, player_vars, tracklist_vars>>

\* analyze_packet (206-238) of one decoded packet: the samples join
\* preview_buf, and once the threshold is reached the whole of preview_buf
\* is resampled, appended to the track and dropped.
analyze_packet ==
    LET len == analyzer_preview_buf + samples_len(analyzer_file)
        batch == samples_2_preview_samples(
                     resampled_len(analyzer_file,
                                   sum_to_mono_len(analyzer_file, len)))
    IN  IF len >= preview_threshold(analyzer_file)
        THEN /\ preview_buffer' = preview_buffer \o batch
             /\ committed' = preview_buffer \o batch
             /\ analyzer_preview_buf' = 0
        ELSE /\ analyzer_preview_buf' = len
             /\ UNCHANGED <<preview_buffer, committed>>

\* A loop that goes on after the error of the reader.
after_reader_error_continue(t) == t

\* break (110): the loop is left and the thread ends.
after_reader_error(t) == "done"

\* One turn of the loop of Analyzer::spawn (97-112): decode (149-173),
\* then analyze_packet, or, on the error of the reader, DoneAnalyzing is
\* sent, analyze_bpm runs on sample_buf and the loop is left; a decoder
\* error panics (170).
Analyzer_loop(res) ==
    /\ analyzer_thread = "decoding"
    /\ res \in DecodeResults(analyzer_file, analyzer_reader)
    /\ CASE res = "ok" ->
            /\ analyzer_reader' = analyzer_reader + 1
            /\ analyze_packet
            /\ UNCHANGED <<analyzer_thread, analyzer_event_out>>
         [] res = "decode_error" ->
            /\ analyzer_reader' = analyzer_reader + 1
            /\ analyzer_thread' = "panicked"
            /\ UNCHANGED <<preview_buffer, committed, analyzer_preview_buf,
                           analyzer_event_out>>
         [] OTHER ->
            /\ analyzer_event_out' =
                   Append(analyzer_event_out, "DoneAnalyzing")
            /\ analyzer_thread' = after_reader_error(analyzer_thread)
            /\ UNCHANGED <<preview_buffer, committed, analyzer_preview_buf,
                           analyzer_reader>>
    /\ UNCHANGED <<codec_params, rwlock, preview_samples, reading, observed,
                   analyzer_file, app_received, player_vars, tracklist_vars>>

\* App::update (196): try_recv takes the next event of the channel.
App_try_recv ==
    /\ app_received < Len(analyzer_event_out)
    /\ app_received' = app_received + 1
    /\ UNCHANGED <<codec_params, preview_buffer, rwlock, preview_samples,
                   committed, reading, observed, analyzer_thread,
                   analyzer_file, analyzer_reader, analyzer_preview_buf,
                   analyzer_event_out, player_vars, tracklist_vars>>

\* Analyzer::spawn (93-95) of one of the files: the thread has started and
\* nothing has run; the track variables are those of an empty track until
\* Analyzer::new makes the Track.
AnalyzerInit ==
    /\ Player_new
    /\ Track_new(CodecParameters(None, None))
    /\ analyzer_thread = "spawned"
    /\ analyzer_file \in AnalyzerFiles
    /\ analyzer_reader = 0
    /\ analyzer_preview_buf = 0
    /\ analyzer_event_out = <<>>
    /\ app_received = 0
    /\ TrackList_default

AnalyzerNext ==
    \/ \E res \in NewResults : Analyzer_new(res)
    \/ \E res \in {"ok", "io_error", "decode_error", "end_of_stream"} :
           Analyzer_loop(res)
    \/ App_try_recv

AnalyzerSpec == AnalyzerInit /\ [][AnalyzerNext]_vars

----------------------------------------------------------------------------
\* The TrackList of the interface (view/widgets/track_table.rs 67-158).

\* The file paths of the tracks that are inserted; Track equality and hash
\* are those of file_path (track.rs 156-179).
TrackPaths == {"a.mp3", "b.mp3", "c.mp3", "d.mp3"}

\* IndexSet::insert: the path joins the end unless the set holds it.
IndexSet_insert(set, path) ==
    IF \E i \in 1..Len(set) : set[i] = path THEN set ELSE Append(set, path)

\* TrackList::get_focused (88-92) and get_loaded (95-99): the track at the
\* index, None without an index; an index past the end panics.  Indices
\* count from 0 as in the source.
get_track(set, index) ==
    IF ~IsSome(index) THEN Returned(None)
    ELSE IF Unwrap(index) < Len(set)
         THEN Returned(Some(set[Unwrap(index) + 1]))
         ELSE Unwound

\* A focus_next that does not wrap.
next_index_unwrapped(i, len) == i + 1

\* The index focus_next moves to (104-114).
next_index(i, len) ==
    IF len = 0 THEN i ELSE IF i < len - 1 THEN i + 1 ELSE 0

\* The index focus_previous moves to (125-128).
previous_index(i, len) == IF i > 0 THEN i - 1 ELSE len - 1

\* The interface runs on the main thread: a TrackList call that panicked
\* ends the process.
ListAlive == ~list_ev.res.panicked

\* TrackList::insert (142-147)
insert(path) ==
    /\ ListAlive
    /\ focused_track' = IF Len(tracks) = 0 THEN Some(0) ELSE focused_track
    /\ tracks' = IndexSet_insert(tracks, path)
    /\ list_ev' = ListEvent("insert", focused_track, Returned(None))
    /\ UNCHANGED <<loaded_track, player_vars, codec_params, preview_buffer,
                   rwlock, preview_samples, committed, reading, observed,
                   analyzer_vars>>

\* TrackList::focus_next (102-119)
focus_next ==
    /\ ListAlive
    /\ focused_track' =
           IF IsSome(focused_track)
           THEN Some(next_index(Unwrap(focused_track), Len(tracks)))
           ELSE None
    /\ list_ev' = ListEvent("focus_next", focused_track,
                            get_track(tracks, focused_track'))
    /\ UNCHANGED <<tracks, loaded_track, player_vars, codec_params,
                   preview_buffer, rwlock, preview_samples, committed,
                   reading, observed, analyzer_vars>>

\* TrackList::focus_previous (122-133)
focus_previous ==
    /\ ListAlive
    /\ focused_track' =
           IF IsSome(focused_track)
           THEN Some(previous_index(Unwrap(focused_track), Len(tracks)))
           ELSE None
    /\ list_ev' = ListEvent("focus_previous", focused_track,
                            get_track(tracks, focused_track'))
    /\ UNCHANGED <<tracks, loaded_track, player_vars, codec_params,
                   preview_buffer, rwlock, preview_samples, committed,
                   reading, observed, analyzer_vars>>

\* TrackList::load_focused (136-139)
load_focused ==
    /\ ListAlive
    /\ loaded_track' = focused_track
    /\ list_ev' = ListEvent("load_focused", focused_track,
                            get_track(tracks, focused_track))
    /\ UNCHANGED <<tracks, focused_track, player_vars, codec_params,
                   preview_buffer, rwlock, preview_samples, committed,
                   reading, observed, analyzer_vars>>

\* An empty TrackList, next to a player, a track and an Analyzer that are
\* not used.
TrackListInit ==
    /\ Player_new
    /\ Track_new(CodecParameters(None, None))
    /\ Analyzer_unspawned
    /\ TrackList_default

TrackListNext ==
    \/ \E path \in TrackPaths : insert(path)
    \/ focus_next
    \/ focus_previous
    \/ load_focused

TrackListSpec == TrackListInit /\ [][TrackListNext]_vars

----------------------------------------------------------------------------
\* The claims.

\* The commands of the inbox other than Load, as the steps name them.
SkipOps == {"skip_forward", "skip_backward"}

\* C1: when decoding the pulled packet fails while Playing, the playhead
\* keeps the value it had before the step, the packet is not written, and
\* the engine stays Playing with its loop running.
C1_DecodeErrorSkipsPacket ==
    ev = Event("write", "decode_error") =>
        /\ thread = "running"
        /\ state = "Playing"
        /\ position_marker = Unwrap(packet).before

\* C2: a skip whose seek fails leaves the playhead and the state as they
\* were before the command.
C2_FailedSkipKeepsPlayhead ==
    [][(ev'.op \in SkipOps /\ ev'.res = "seek_failed") =>
           (position_marker' = position_marker /\ state' = state)]_vars

\* C3: Cue while Playing whose seek to the cue point fails leaves the
\* playhead as it was before the command, and the engine Playing.
C3_FailedCueKeepsPlayhead ==
    [][ev' = Event("cue", "seek_failed") =>
           (position_marker' = position_marker /\ state' = "Playing")]_vars

\* C4: whatever the commands and whatever the decoder and the sink return,
\* the player thread is still running its loop.
C4_LoopNeverTerminates == thread = "running"

\* C5: a failed write to the sink does not stop the engine: the thread
\* runs on, Playing or Paused, at the top of its loop for the next packet.
C5_WriteFailureNotFatal ==
    ev = Event("write", "write_error") =>
        /\ thread = "running"
        /\ state \in {"Playing", "Paused"}
        /\ pc = "recv"

\* C6: at the end of the stream the engine goes to Paused with the playhead
\* unchanged or sends a notification, and its loop runs on.
C6_EndOfStreamPausesOrNotifies ==
    [][ev' = Event("next_packet", "end_of_stream") =>
           /\ thread' = "running"
           /\ \/ (state' = "Paused" /\ position_marker' = position_marker)
              \/ player_event_out' # player_event_out]_vars

\* C7: a Load that fails because the source cannot be opened, its format is
\* unsupported or it has no track leaves the state, the track, the playhead
\* and the cue point as they were, and the engine goes on processing
\* commands.
C7_FailedLoadKeepsState ==
    [][(ev'.op = "load" /\
        ev'.res \in {"open_failed", "unsupported_format", "no_track"}) =>
           /\ thread' = "running"
           /\ state' = state
           /\ track' = track
           /\ position_marker' = position_marker
           /\ cue_point_marker' = cue_point_marker]_vars

\* C8: a successful Load in Unloaded ends in Paused with the sink open, the
\* playhead at timestamp 0 and the cue point equal to the playhead.
C8_LoadFromUnloaded ==
    [][(state = "Unloaded" /\ ev' = Event("load", "ok")) =>
           /\ state' = "Paused"
           /\ IsSome(output')
           /\ IsSome(position_marker')
           /\ get_timestamp(position_marker') = 0
           /\ cue_point_marker' = position_marker']_vars

\* C8 witness: the first command was a Load, and it succeeded.
C8_Witness ==
    /\ ev = Event("load", "ok")
    /\ sent = 1
    /\ state = "Paused"
    /\ get_timestamp(position_marker) = 0

\* C9: after a successful Load, the track, the decoder and the track of the
\* playhead are those of the file the reader reads.
C9_LoadReplacesTrack ==
    ev = Event("load", "ok") =>
        /\ Unwrap(track).file = Unwrap(reader).file
        /\ Unwrap(decoder) = Unwrap(reader).file
        /\ Unwrap(position_marker).track = TrackOf(Unwrap(reader).file)

\* C10: in Unloaded, TogglePlay, Cue, SkipForward and SkipBackward change
\* nothing: the state, the playhead, the cue point, the reader (no seek)
\* and the sink (no write) stay as they were, and the thread runs on.
C10_UnloadedCommandsAreNoOps ==
    [][(state = "Unloaded" /\ ev'.op \in SkipOps \cup {"toggle_play", "cue"}) =>
           /\ state' = "Unloaded"
           /\ position_marker' = position_marker
           /\ cue_point_marker' = cue_point_marker
           /\ reader' = reader
           /\ output' = output
           /\ thread' = "running"]_vars

\* C10 witness: a Cue was handled in Unloaded after a TogglePlay and a skip.
C10_Witness ==
    /\ state = "Unloaded"
    /\ ev = Event("cue", "set")
    /\ sent >= 3
    /\ cue_point_marker = None
    /\ thread = "running"

\* C11: with a track loaded TogglePlay swaps Paused and Playing, so that two
\* of them in a row restore the state, and going from Playing to Paused
\* flushes the sink in the same step, before any later write.
C11_ToggleSymmetricAndFlushes ==
    [][(ev'.op = "toggle_play" /\ state \in {"Paused", "Playing"}) =>
           /\ state' = (IF state = "Paused" THEN "Playing" ELSE "Paused")
           /\ state = "Playing" =>
                  /\ ~Unwrap(output').pending
                  /\ Unwrap(output').writes = Unwrap(output).writes]_vars

\* C11 witness: two TogglePlay were handled, the second one pausing after
\* a packet was written, and the sink is flushed.
C11_Witness ==
    /\ ev = Event("toggle_play", "Paused")
    /\ state = "Paused"
    /\ Len(Unwrap(output).writes) >= 1
    /\ ~Unwrap(output).pending

\* C13: Cue while not Playing makes the playhead the cue point, whatever
\* the cue point was, and leaves playhead, state and reader as they were.
C13_CueSetsCuePoint ==
    [][(ev'.op = "cue" /\ state # "Playing") =>
           /\ cue_point_marker' = position_marker
           /\ position_marker' = position_marker
           /\ state' = state
           /\ reader' = reader]_vars

\* C13 witness: a Cue in Paused replaced the cue point of the load by a
\* later playhead.
C13_Witness ==
    /\ ev = Event("cue", "set")
    /\ state = "Paused"
    /\ get_timestamp(cue_point_marker) > 0
    /\ cue_point_marker = position_marker

\* C14: Cue while Playing whose seek succeeds puts the reader at the packet
\* of the cue point's timestamp, sets the playhead to the cue point, and
\* leaves the engine Playing and the cue point as it was.
C14_CueReturnsToCuePoint ==
    [][ev' = Event("cue", "ok") =>
           /\ position_marker' = cue_point_marker
           /\ get_timestamp(position_marker') = get_timestamp(cue_point_marker)
           /\ Unwrap(reader').pos =
                  PacketAt(Unwrap(reader).file, get_timestamp(cue_point_marker))
           /\ state' = "Playing"
           /\ cue_point_marker' = cue_point_marker]_vars

\* C14 witness: a cue point was set in Paused at a timestamp T > 0, packets
\* were played, and a Cue in Playing brought the playhead back to T.
C14_Witness ==
    /\ ev = Event("cue", "ok")
    /\ state = "Playing"
    /\ Len(Unwrap(output).writes) >= 1
    /\ get_timestamp(cue_point_marker) > 0
    /\ position_marker = cue_point_marker

\* C12: once the application has asked the engine to close, the engine is
\* Closed within one loop iteration.  Message has no Close variant: the
\* request the application can make is to drop its Sender, which the next
\* try_recv on the empty queue reports.
C12_CloseReachesClosed ==
    ev = Event("recv", "disconnected") => state = "Closed"

\* C15: a skip whose seek succeeds moves the playhead by the time of the
\* command: forward to time + dt, backward to time - dt and never to a
\* later time than before.
C15_SkipMovesByOffset ==
    [][(ev'.op \in SkipOps /\ ev'.res = "ok") =>
           LET dt     == TimeInTicks(Head(inbox).time)
               before == get_time_in_seconds(position_marker)
               after  == get_time_in_seconds(position_marker')
           IN  /\ ev'.op = "skip_forward" => after = before + dt
               /\ ev'.op = "skip_backward" =>
                      /\ after <= before
                      /\ before >= dt => after = before - dt]_vars

\* C16: SkipBackward by more than the time of the playhead leaves the
\* playhead at timestamp 0.
C16_SkipBackwardSaturates ==
    [][(ev'.op = "skip_backward" /\ ev'.res \in {"ok", "seek_failed"} /\
        TimeInTicks(Head(inbox).time) > get_time_in_seconds(position_marker)) =>
           get_timestamp(position_marker') = 0]_vars

\* C17: an iteration of the loop takes at most one message, then runs at
\* most one decode-and-write step: a message leaves the inbox only at
\* try_recv, one at a time, and the thread then stands at the play step; a
\* packet is pulled only at the play step and written only right after,
\* and the thread is then back at try_recv.
C17_OneCommandThenOnePlay ==
    [][/\ Len(inbox') < Len(inbox) =>
              /\ pc = "recv"
              /\ inbox' = Tail(inbox)
              /\ pc' = "play" \/ thread' = "panicked"
       /\ ev'.op = "next_packet" =>
              /\ pc = "play"
              /\ pc' = (IF ev'.res = "ok" THEN "write" ELSE "recv")
       /\ ev'.op = "write" =>
              /\ pc = "write"
              /\ pc' = "recv" \/ thread' = "panicked"
       /\ (output' # output /\ ev'.op \notin {"load", "toggle_play"}) =>
              ev' = Event("write", "ok")]_vars

\* C17 witness: after a message was handled the thread holds a packet to
\* write while the next message waits in the inbox.
C17_Witness ==
    /\ pc = "write"
    /\ IsSome(packet)
    /\ inbox # <<>>
    /\ thread = "running"

\* C18: the engine does not wait for a message: when try_recv finds the
\* inbox empty while Playing, the thread goes on to the play step of the
\* same iteration, and the play step of a Playing engine pulls a packet.
C18_EmptyInboxStillPlays ==
    [][/\ (ev'.op = "recv" /\ state = "Playing") =>
              /\ pc' = "play"
              /\ state' = "Playing"
              /\ thread' = "running"
       /\ (pc = "play" /\ state = "Playing" /\ ev'.op # "send") =>
              ev'.op = "next_packet"]_vars

\* C18 witness: Load and TogglePlay were the only messages, and a second
\* packet was written: its iteration found the inbox empty.
C18_Witness ==
    /\ sent = 2
    /\ inbox = <<>>
    /\ state = "Playing"
    /\ ev = Event("write", "ok")
    /\ Len(Unwrap(output).writes) = 2

\* C19: under fair scheduling of the player thread, the n-th message sent
\* while the thread was running is eventually taken from the inbox.
C19_CommandsNotStarved ==
    \A n \in 1..MaxCmds :
        (sent >= n /\ thread = "running") ~> (sent - Len(inbox) >= n)

\* C20: a reader of the shared playhead never sees the timestamp of a
\* packet that is not yet written: while play holds a packet it has still
\* to decode and write, the playhead is the one from before the pull.
C20_PlayheadNotAheadOfSink ==
    IsSome(packet) => position_marker = Unwrap(packet).before

\* C21: in a decode-and-write step that succeeds, the playhead already
\* holds the timestamp of the pulled packet when the write happens, the
\* write leaves it there, and the packet written is that very packet.
C21_PlayheadSetBeforeWrite ==
    [][ev' = Event("write", "ok") =>
           LET pkt == Unwrap(packet)
           IN  /\ IsSome(position_marker)
               /\ get_timestamp(position_marker) =
                      PacketTs(pkt.file, pkt.idx)
               /\ position_marker' = position_marker
               /\ Unwrap(output').writes =
                      Append(Unwrap(output).writes, pkt.idx)]_vars

\* The second packet of a track is written with the playhead on it.
C21_Witness ==
    /\ ev = Event("write", "ok")
    /\ IsSome(output) /\ IsSome(position_marker)
    /\ Unwrap(output).writes = <<1, 2>>
    /\ get_timestamp(position_marker) = PacketTs(Unwrap(reader).file, 2)
    /\ get_timestamp(position_marker) > 0

\* C22: packets are pulled and written only while Playing: a step of play
\* that asks the reader for a packet or writes to the sink is taken in
\* state Playing, never in Unloaded or Paused.
C22_PullAndWriteOnlyWhilePlaying ==
    ev.op \in {"next_packet", "write"} => state = "Playing"

\* An iteration of a loaded, paused engine ends without a pull.
C22_Witness ==
    /\ ev = Event("play", "idle")
    /\ state = "Paused"
    /\ IsSome(output) /\ IsSome(reader)
    /\ ~IsSome(packet)

\* C23: the playhead changes only in a step that pulls a packet to decode,
\* a skip, a Cue whose seek completed, or a Load; every other step leaves
\* it as it was.
C23_PlayheadChangesOnlyByDecodeSkipCue ==
    [][position_marker' # position_marker =>
           \/ ev' = Event("next_packet", "ok")
           \/ ev'.op \in SkipOps
           \/ ev' = Event("cue", "ok")
           \/ ev'.op = "load"]_vars

\* A read of the interface thread returns in this step.
ReadReturns == reading /\ ~reading'

\* C24: the preview buffer is append-only: no step makes it shorter, and
\* every entry it holds stays at its index with its value.
C24_PreviewBufferAppendOnly ==
    [][/\ Len(preview_buffer') >= Len(preview_buffer)
       /\ SubSeq(preview_buffer', 1, Len(preview_buffer)) = preview_buffer]_vars

\* progress was read with one entry in the buffer (one frame of 5, 20 %),
\* and two different entries were appended since.
C24_Witness ==
    /\ codec_params = CodecParameters(Some(5), Some(4))
    /\ observed.call.op = "progress"
    /\ observed.res = Returned(Some(20))
    /\ Len(committed) = 3
    /\ committed[2] # committed[3]

\* C25: while a read holds the lock, the buffer is the one the last
\* completed append left: no element of a running append is in it.
C25_ReaderSeesWholeAppends ==
    reading => (preview_buffer = committed /\ preview_samples = <<>>)

\* A read holds the lock on a buffer that two appends have filled, after an
\* earlier read.
C25_Witness ==
    /\ reading
    /\ rwlock = "read"
    /\ Len(committed) = 3
    /\ observed.call.op = "live_preview"

\* C26: a live_preview whose center is left of half the target size
\* returns, without panicking, exactly target_size entries of which the
\* first target_size / 2 - center are zero, whatever the buffer holds.
C26_PaddingLaw ==
    LET c == observed.call
        diff == window_diff(c.target_size, c.target_sample_rate,
                            c.playhead_position)
    IN  (c.op = "live_preview" /\ diff < 0) =>
            /\ ~observed.res.panicked
            /\ Len(observed.res.value) = c.target_size
            /\ \A i \in 1..(-diff) : observed.res.value[i].sum = ZeroSample

\* The right edge of the window of a live_preview call, in buffer entries.
right_edge(c) ==
    LET diff == window_diff(c.target_size, c.target_sample_rate,
                            c.playhead_position)
    IN  IF diff >= 0
        THEN scale_ceil(window_edge(1, c.target_size, c.target_sample_rate,
                                    c.playhead_position),
                        c.target_sample_rate)
        ELSE (c.target_size + diff) * conversion_floor(c.target_sample_rate)

\* C27: a live_preview whose window ends beyond the buffer does not panic
\* and returns no more than its padding and what the buffer holds.
C27_WindowTruncatedAtEnd ==
    [][(ReadReturns /\ observed'.call.op = "live_preview"
        /\ right_edge(observed'.call) > Len(preview_buffer)) =>
           LET c == observed'.call
               diff == window_diff(c.target_size, c.target_sample_rate,
                                   c.playhead_position)
               floor == conversion_floor(c.target_sample_rate)
               padding == IF diff < 0 THEN -diff ELSE 0
           IN  /\ ~observed'.res.panicked
               /\ Len(observed'.res.value) * floor
                      <= padding * floor + Len(preview_buffer) + floor - 1]_vars

\* C28: preview of a track that declares its frame count and sample rate
\* returns exactly target_size entries, whatever the buffer holds.
C28_OverviewHasTargetSize ==
    (/\ observed.call.op = "preview"
     /\ IsSome(codec_params.n_frames)
     /\ IsSome(codec_params.sample_rate)) =>
        /\ ~observed.res.panicked
        /\ Len(observed.res.value) = observed.call.target_size

\* min(100, ceil(100 * entries * chunk_size / total_frames))
progress_percentage(entries, chunk_size, total_frames) ==
    LET p == (100 * entries * chunk_size + total_frames - 1)
             \div total_frames
    IN  IF p > 100 THEN 100 ELSE p

\* C29: progress of a track that declares its frame count (and its sample
\* rate, of which the chunk size comes) returns
\* min(100, ceil(100 * entries * chunk_size / total_frames)).
C29_ProgressIsClampedPercentage ==
    [][(/\ ReadReturns
        /\ observed'.call.op = "progress"
        /\ IsSome(codec_params.n_frames)
        /\ IsSome(codec_params.sample_rate)) =>
           observed'.res =
               Returned(Some(progress_percentage(
                   Len(preview_buffer),
                   Unwrap(codec_params.sample_rate)
                       \div PREVIEW_SAMPLE_RATE,
                   Unwrap(codec_params.n_frames))))]_vars

\* C30: progress of a track that declares no frame count returns None.
C30_ProgressUndefinedWithoutFrames ==
    (observed.call.op = "progress" /\ ~IsSome(codec_params.n_frames)) =>
        observed.res = Returned(None)

\* C32: when next_packet or seek returns ResetRequired the thread runs on
\* and the playhead is reset to the start of the track.
C32_ResetRequiredRebuilds ==
    [][ev'.res = "reset_required" =>
           /\ thread' = "running"
           /\ IsSome(position_marker')
           /\ get_timestamp(position_marker') = 0]_vars

\* C33: in Paused and Playing the reader, the decoder, the sink, the
\* track, the playhead and the cue point are all there, and play never
\* reaches its panic "Not everything was initialized".
C33_LoadedMeansInitialized ==
    /\ state \in {"Paused", "Playing"} =>
           /\ Initialized
           /\ IsSome(position_marker)
           /\ IsSome(cue_point_marker)
    /\ ev # Event("next_packet", "not_initialized")

\* Cue while Playing found its cue point and returned to it.
C33_Witness ==
    /\ state = "Playing"
    /\ ev = Event("cue", "ok")
    /\ Initialized
    /\ position_marker = cue_point_marker

\* C34: the state is never Closed, so the loop's condition never ends the
\* loop, with the channel disconnected as well.
C34_ClosedUnreachable == state \in {"Unloaded", "Paused", "Playing"}

\* The loop found the channel disconnected and goes on to play.
C34_Witness ==
    /\ ev = Event("recv", "disconnected")
    /\ ~connected
    /\ state = "Playing"
    /\ thread = "running"
    /\ pc = "play"

\* Messages the player thread has taken from the channel.
consumed == sent - Len(inbox)

\* C35: right after a successful Load the engine is Paused with the
\* playhead and the cue point at timestamp 0, holds no packet, and the
\* play step of this iteration does nothing.
C35_LoadPausesAndResets ==
    ev = Event("load", "ok") =>
        /\ state = "Paused"
        /\ IsSome(position_marker) /\ get_timestamp(position_marker) = 0
        /\ IsSome(cue_point_marker) /\ get_timestamp(cue_point_marker) = 0
        /\ ~IsSome(packet)
        /\ ~ShouldPlay(state, output)
        /\ Unwrap(output).writes = <<>>

\* A second Load, of another file, as the third message taken.
C35_Witness ==
    /\ ev = Event("load", "ok")
    /\ consumed = 3
    /\ Unwrap(reader).file = "b.mp3"
    /\ Unwrap(track).file = "a.mp3"
    /\ state = "Paused"

\* C36: after Load and TogglePlay and nothing else, the first packet
\* pulled, and written, is the second of the stream, and the playhead was
\* 0 before it was pulled.
C36_FirstPacketIsConsumedByLoad ==
    (consumed = 2 /\ state = "Playing") =>
        /\ IsSome(packet) /\ Unwrap(output).writes = <<>> =>
               /\ Unwrap(packet).idx = 2
               /\ get_timestamp(Unwrap(packet).before) = 0
        /\ Unwrap(output).writes # <<>> => Unwrap(output).writes[1] = 2

\* The first write after Load and TogglePlay.
C36_Witness ==
    /\ consumed = 2
    /\ state = "Playing"
    /\ ev = Event("write", "ok")
    /\ Unwrap(output).writes = <<2>>

\* C37: the cue point changes only in a Load and in a Cue taken while not
\* Playing.
C37_CuePointChangesOnlyByLoadAndCue ==
    [][cue_point_marker' # cue_point_marker =>
           \/ ev'.op = "load"
           \/ (ev' = Event("cue", "set") /\ state # "Playing")]_vars

\* A Cue while Playing returns to the cue point that a Cue while Paused
\* had set after a skip, and leaves it where it is.
C37_Witness ==
    /\ ev = Event("cue", "ok")
    /\ state = "Playing"
    /\ consumed = 5
    /\ position_marker = cue_point_marker
    /\ get_timestamp(cue_point_marker) > 0

\* Frames of the track that one entry of the preview buffer stands for:
\* sample_rate / PREVIEW_SAMPLE_RATE, as Track::progress counts them.
chunk_size(file) == file.sample_rate \div PREVIEW_SAMPLE_RATE

\* C31: once the Analyzer has decoded its file to the end, the preview
\* buffer holds total_frames / chunk_size entries, one more or less, and
\* nothing decoded is still held back in preview_buf.
C31_PreviewCoversWholeTrack ==
    (/\ analyzer_thread = "done"
     /\ analyzer_reader = analyzer_file.packets) =>
        LET entries == n_frames_of(analyzer_file)
                       \div chunk_size(analyzer_file)
        IN  /\ Len(preview_buffer) >= entries - 1
            /\ Len(preview_buffer) <= entries + 1
            /\ analyzer_preview_buf = 0

\* C38: the Analyzer thread reads a packet or appends to the preview
\* buffer only when NewTrack is the one event it has sent; it sends
\* NewTrack once and first and DoneAnalyzing once and after it; the turn
\* of the loop in which the reader returns an error, end of stream or
\* another, is the one that sends DoneAnalyzing, and after it no packet is
\* read.
C38_AnalyzerEventOrder ==
    [][/\ (\/ analyzer_reader' # analyzer_reader
           \/ preview_buffer' # preview_buffer) =>
              analyzer_event_out = <<"NewTrack">>
       /\ analyzer_event_out' \in {<<>>, <<"NewTrack">>,
                                   <<"NewTrack", "DoneAnalyzing">>}
       /\ (\/ Analyzer_loop("io_error")
           \/ Analyzer_loop("end_of_stream")) <=>
              (/\ analyzer_event_out = <<"NewTrack">>
               /\ analyzer_event_out' = <<"NewTrack", "DoneAnalyzing">>)
       /\ analyzer_event_out = <<"NewTrack", "DoneAnalyzing">> =>
              /\ analyzer_reader' = analyzer_reader
              /\ preview_buffer' = preview_buffer]_vars

\* The reader failed after the Analyzer had appended once: both events are
\* out, the application has taken them, and packets are left unread.
C38_Witness ==
    /\ analyzer_thread = "done"
    /\ analyzer_event_out = <<"NewTrack", "DoneAnalyzing">>
    /\ app_received = 2
    /\ preview_buffer # <<>>
    /\ analyzer_reader < analyzer_file.packets

\* C39: in the TrackList, focused_track is None exactly while no track has
\* been inserted, and else an index below the number of tracks, so that no
\* call panics on its index; focus_next from the last track has moved to
\* index 0 and focus_previous from index 0 to the last track.
C39_FocusStaysInBounds ==
    /\ ~IsSome(focused_track) <=> tracks = <<>>
    /\ IsSome(focused_track) => Unwrap(focused_track) < Len(tracks)
    /\ ~list_ev.res.panicked
    /\ (/\ list_ev.op = "focus_next"
        /\ list_ev.before = Some(Len(tracks) - 1)) =>
           /\ focused_track = Some(0)
           /\ list_ev.res = Returned(Some(tracks[1]))
    /\ (/\ list_ev.op = "focus_previous"
        /\ list_ev.before = Some(0)) =>
           /\ focused_track = Some(Len(tracks) - 1)
           /\ list_ev.res = Returned(Some(tracks[Len(tracks)]))

\* focus_next has wrapped from the last of three tracks, the one that is
\* loaded, to the first.
C39_Witness ==
    /\ list_ev.op = "focus_next"
    /\ Len(tracks) = 3
    /\ list_ev.before = Some(2)
    /\ focused_track = Some(0)
    /\ loaded_track = Some(2)

====
